---------------------------- MODULE Spec2Model ----------------------------
(***************************************************************************)
(* bread: btrfs snapshot manager.  A model of the snapshot directory, the  *)
(* retention prune, the rollback / revert engine with its undo buffer, and *)
(* the kernel backup tracker, translated from src/bread/lib.py and         *)
(* src/bread/cli/{rollback,revert,snapshot}.py.                            *)
(***************************************************************************)
EXTENDS Integers, Sequences, FiniteSets, TLC

(***************************************************************************)
(* Bounds of the model.                                                    *)
(***************************************************************************)
\* largest number of entries of one subvolume in a drawn snapshot history
MaxHist == 3
\* largest retention count drawn for each of hourly/daily/weekly/monthly
MaxCount == 2
\* number of session timestamps the file-system specification draws from
MaxSessions == 2
\* number of external calls the environment makes fail in one behaviour
MaxFaults == 1

(***************************************************************************)
(* Names.                                                                  *)
(***************************************************************************)
Subvols == {"home", "root"}
Versions == {"k1", "k2", "k3"}
Artifacts == {"vmlinuz", "initramfs", "bls"}
NoVer == "none"

\* An optional value: <<>> is "no such file", <<x>> a file/subvolume holding x.
None == << >>
Some(x) == << x >>
Has(o) == o # << >>

(***************************************************************************)
(* Timestamps.  A timestamp string YYYYMMDDTHHMM[SS] is the record of its  *)
(* digit groups; g is the number of digits after the T (4 or 6).           *)
(***************************************************************************)
T(y, mo, d, h, mi, s, g) ==
    [y |-> y, mo |-> mo, d |-> d, h |-> h, mi |-> mi, s |-> s, g |-> g]

\* The timestamps the model draws file names from, oldest (true time) first.
StampSeq ==
    << T(2024, 11, 20, 7, 0, 0, 4),
       T(2024, 12, 29, 10, 0, 0, 6),
       T(2024, 12, 30, 9, 5, 9, 6),
       T(2024, 12, 30, 9, 30, 0, 6),
       T(2024, 12, 30, 9, 59, 0, 4),
       T(2024, 12, 30, 11, 0, 0, 6),
       T(2025, 1, 1, 8, 0, 0, 6),
       T(2025, 1, 8, 8, 0, 0, 6) >>

Stamps == { StampSeq[i] : i \in 1..Len(StampSeq) }

\* The content tag of a live subvolume that was never rolled back.
Cur == T(0, 0, 0, 0, 0, 0, 0)

\* Lexicographic order on tuples of integers of equal length.
RECURSIVE LexLess(_, _)
LexLess(a, b) ==
    IF a = << >> THEN FALSE
    ELSE IF Head(a) # Head(b) THEN Head(a) < Head(b)
    ELSE LexLess(Tail(a), Tail(b))

\* Order of the timestamp strings (str.__lt__): equal-width digit groups, and
\* a 4-digit time that is a prefix of a 6-digit one sorts first.
StrLess(a, b) ==
    LET pa == << a.y, a.mo, a.d, a.h, a.mi >>
        pb == << b.y, b.mo, b.d, b.h, b.mi >>
    IN  IF pa # pb THEN LexLess(pa, pb)
        ELSE IF a.g # b.g THEN a.g < b.g
        ELSE a.g = 6 /\ a.s < b.s

\* The instant a timestamp string names: minute grain has seconds 0.
TrueInstant(t) == << t.y, t.mo, t.d, t.h, t.mi, t.s >>

\* datetime.strptime over ("%Y%m%dT%H%M%S", "%Y%m%dT%H%M") in that order: the
\* first format also matches a 4-digit time HHMM, reading it as H=HH, M=first
\* digit of MM, S=second digit of MM, so the second format is never reached.
strptime(t) ==
    IF t.g = 6 THEN << t.y, t.mo, t.d, t.h, t.mi, t.s >>
    ELSE << t.y, t.mo, t.d, t.h, t.mi \div 10, t.mi % 10 >>

(***************************************************************************)
(* Calendar arithmetic of datetime (proleptic Gregorian).                  *)
(***************************************************************************)
IsLeap(y) == (y % 4 = 0 /\ y % 100 # 0) \/ y % 400 = 0

DaysBeforeMonth(y, m) ==
    LET tab == << 0, 31, 59, 90, 120, 151, 181, 212, 243, 273, 304, 334 >>
    IN  tab[m] + (IF m > 2 /\ IsLeap(y) THEN 1 ELSE 0)

DayOfYear(y, m, d) == DaysBeforeMonth(y, m) + d

Ordinal(y, m, d) ==
    (y - 1) * 365 + ((y - 1) \div 4) - ((y - 1) \div 100) + ((y - 1) \div 400)
    + DayOfYear(y, m, d)

\* Monday = 1 .. Sunday = 7
IsoWeekday(y, m, d) == ((Ordinal(y, m, d) + 6) % 7) + 1

WeeksInYear(y) ==
    LET p(x) == (x + (x \div 4) - (x \div 100) + (x \div 400)) % 7
    IN  IF p(y) = 4 \/ p(y - 1) = 3 THEN 53 ELSE 52

\* d.isocalendar()[0], d.isocalendar()[1]
isocalendar(y, m, d) ==
    LET w == (DayOfYear(y, m, d) - IsoWeekday(y, m, d) + 10) \div 7
    IN  IF w < 1 THEN << y - 1, WeeksInYear(y - 1) >>
        ELSE IF w > WeeksInYear(y) THEN << y + 1, 1 >>
        ELSE << y, w >>

\* The four bucket keys of prune_snapshots, on a parsed datetime dt.
HourKey(dt) == << dt[1], dt[2], dt[3], dt[4] >>
DayKey(dt) == << dt[1], dt[2], dt[3] >>
WeekKey(dt) == isocalendar(dt[1], dt[2], dt[3])
MonthKey(dt) == << dt[1], dt[2] >>
KeyOf(gran, dt) ==
    CASE gran = "hourly" -> HourKey(dt)
      [] gran = "daily" -> DayKey(dt)
      [] gran = "weekly" -> WeekKey(dt)
      [] gran = "monthly" -> MonthKey(dt)
Grans == {"hourly", "daily", "weekly", "monthly"}

(***************************************************************************)
(* State.                                                                  *)
(***************************************************************************)
VARIABLES
    live,       \* MOUNT_POINT/<sub>: None or Some(content tag)
    oldDir,     \* whether OLD_DIR exists
    old,        \* OLD_DIR/<sub>: None or Some(content tag)
    tmp,        \* MOUNT_POINT/<sub>_revert_tmp: None or Some(content tag)
    snapDir,    \* whether SNAP_DIR exists
    snaps,      \* the entries <sub>.<ts> of SNAP_DIR, as pairs << sub, ts >>
    markers,    \* SNAP_DIR/.kernel.<ts>: None or Some(version)
    backups,    \* BOOT_BACKUP_DIR/<ver>: None or Some(artifact -> None/Some(c))
    boot,       \* /boot files of each version: artifact -> None/Some(file)
    restored,   \* content of BOOT_RESTORED_MARKER, NoVer when the file is absent
    grub,       \* the boot loader's default entry (grubby --set-default)
    running,    \* os.uname().release
    conf,       \* lib.CONF: None or Some(retention record)
    faults,     \* how many more external calls the environment will make fail
    made,       \* per version: the /boot contents backup_kernel copied from
                \* when it made the record now in BOOT_BACKUP_DIR (None when
                \* the record was not made in this behaviour)
    gui,        \* the window of the graphical front-end: the table it shows
                \* (self.table) and the selected row (self.selected_idx)
    last        \* what the last command did (its exit, its printed lines)

vars == << live, oldDir, old, tmp, snapDir, snaps, markers, backups, boot,
           restored, grub, running, conf, faults, made, gui, last >>

diskVars == << live, oldDir, old, tmp, snapDir, snaps, markers, backups, boot,
               restored, grub, running, conf, faults, made >>

\* The record of the last command: its exit (out) and what it printed.
\* ts/plan: the session and the subvolumes of a rollback or revert that got
\* past its checks; tried/failed: the entries prune printed "[-] Pruning"
\* for, and those whose delete raised; preLive/preOld: the subvolume tree a
\* rollback or revert that ran to its end had started from; prev: the command
\* before it, when that was a rollback or revert that ran to its end too
\* (for a prune: a prune of the same subvolume that deleted all it chose);
\* sub: the subvolume of a prune, the version of a kernel backup or restore
\* (whose prev is the Restored-Kernel Marker it found); unsafeYes: the
\* command was a rollback or revert run with --yes while /etc/fstab held an
\* entry that mounts a btrfs subvolume by subvolid=; n: the --snapshot number
\* a rollback read; range: the N of "Invalid snapshot number. Range: 1-N";
\* table: what build_snapshot_table returned to a listing.
NoSubvols == [s \in Subvols |-> None]
\* "no --snapshot number was read"
NoNumber == 0 - 1

\* BreadWindow.__init__ before its first _refresh(): self.table = [],
\* self.selected_idx = None
NoGui == [table |-> << >>, sel |-> NoNumber]

Exit(op, out) ==
    [op |-> op, out |-> out, ts |-> Cur, plan |-> << >>, sub |-> "",
     tried |-> {}, failed |-> {}, preLive |-> NoSubvols, preOld |-> NoSubvols,
     prev |-> "", unsafeYes |-> FALSE, n |-> NoNumber, range |-> NoNumber,
     table |-> << >>]

Done(op, out, ts, plan, u) ==
    IF out # "ok" THEN [Exit(op, out) EXCEPT !.ts = ts, !.plan = plan, !.unsafeYes = u]
    ELSE [Exit(op, out) EXCEPT
            !.ts = ts, !.plan = plan, !.preLive = live, !.preOld = old,
            !.unsafeYes = u,
            !.prev = IF last.out = "ok" /\ last.op \in {"rollback", "revert"}
                     THEN last.op ELSE ""]

Pruned(sub, tried, failed) ==
    [Exit("prune", "ok") EXCEPT
        !.sub = sub, !.tried = tried, !.failed = failed,
        !.prev = IF last.op = "prune" /\ last.sub = sub /\ last.tried # {}
                    /\ last.failed = {}
                 THEN "prune" ELSE ""]

(***************************************************************************)
(* cli/snapshot.py: get_snapshots, prune_snapshots.                        *)
(***************************************************************************)
\* The timestamps of the entries of one subvolume (fname starts with
\* "<sub>." and the rest parses).
StampsOf(sub) == { e[2] : e \in { x \in snaps : x[1] = sub } }

Perms(S) ==
    { q \in [1..Cardinality(S) -> S] : \A i, j \in 1..Cardinality(S) : i # j => q[i] # q[j] }

\* get_snapshots: sorted(snaps, key=dt, reverse=True).  The sort is stable
\* and os.listdir gives the names in any order, so entries with one parsed
\* datetime come in any order: every non-increasing arrangement is a result.
get_snapshots(sub) ==
    IF ~snapDir THEN { << >> }
    ELSE { q \in Perms(StampsOf(sub)) :
             \A i \in 1..(Len(q) - 1) : ~LexLess(strptime(q[i]), strptime(q[i + 1])) }

\* add_bucket(count, key_func): walk sn from position i; seen = bucket keys
\* met so far that were kept, kept = their number.
RECURSIVE add_bucket_from(_, _, _, _, _, _)
add_bucket_from(sn, i, count, gran, seen, kept) ==
    IF i > Len(sn) THEN {}
    ELSE LET interval == KeyOf(gran, strptime(sn[i]))
         IN  IF interval \notin seen /\ kept < count
             THEN {sn[i]} \cup add_bucket_from(sn, i + 1, count, gran,
                                               seen \cup {interval}, kept + 1)
             ELSE add_bucket_from(sn, i + 1, count, gran, seen, kept)

add_bucket(sn, count, gran) == add_bucket_from(sn, 1, count, gran, {}, 0)

\* (variant) the walks start at the second entry and nothing keeps the first
keep_paths_tail(sn, r) ==
    add_bucket_from(sn, 2, r.hourly, "hourly", {}, 0)
    \cup add_bucket_from(sn, 2, r.daily, "daily", {}, 0)
    \cup add_bucket_from(sn, 2, r.weekly, "weekly", {}, 0)
    \cup add_bucket_from(sn, 2, r.monthly, "monthly", {}, 0)

\* keep_paths of prune_snapshots for the sorted list sn and retention r.
keep_paths(sn, r) ==
    (IF sn # << >> THEN {sn[1]} ELSE {})
    \cup add_bucket(sn, r.hourly, "hourly")
    \cup add_bucket(sn, r.daily, "daily")
    \cup add_bucket(sn, r.weekly, "weekly")
    \cup add_bucket(sn, r.monthly, "monthly")

\* The entries prune_snapshots runs "btrfs subvolume delete" on.
evicted(sn, r) == { sn[i] : i \in 1..Len(sn) } \ keep_paths(sn, r)

\* prune_snapshots(subvol_name), with lib.CONF loaded.  Each delete may raise;
\* the exception is counted and the loop goes on.
PruneSnapshots(sub) ==
    /\ UNCHANGED gui
    /\ Has(conf)
    /\ \E sn \in get_snapshots(sub) :
         \E failed \in SUBSET evicted(sn, conf[1]) :
            /\ snaps' = snaps \ { << sub, t >> : t \in evicted(sn, conf[1]) \ failed }
            /\ last' = Pruned(sub, evicted(sn, conf[1]), failed)
    /\ UNCHANGED << live, oldDir, old, tmp, snapDir, markers, backups, boot,
                    restored, grub, running, conf, faults, made >>

(***************************************************************************)
(* One command in flight.  Every external call that can raise (btrfs       *)
(* subvolume delete / snapshot, os.rename, grubby) is counted in k; the    *)
(* f-th one raises (f = 0: none does) and err records that the command     *)
(* died there with an uncaught exception.                                  *)
(***************************************************************************)
Cmd(f) ==
    [live |-> live, oldDir |-> oldDir, old |-> old, tmp |-> tmp,
     boot |-> boot, restored |-> restored, grub |-> grub, snaps |-> snaps,
     k |-> 0, f |-> f, err |-> FALSE, ret |-> TRUE]

Try(st, eff) ==
    IF st.err THEN st
    ELSE IF st.k + 1 = st.f THEN [st EXCEPT !.k = @ + 1, !.err = TRUE]
    ELSE [eff EXCEPT !.k = st.k + 1]

Fail(st) == [st EXCEPT !.err = TRUE]

(***************************************************************************)
(* lib.py: the kernel backup tracker.                                      *)
(***************************************************************************)
NoFiles == [a \in Artifacts |-> None]

\* _remove_kernel_from_boot(ver)
remove_kernel_from_boot(b, ver) == [b EXCEPT ![ver] = NoFiles]

\* _clean_previous_restore()
clean_previous_restore(st) ==
    IF st.restored = NoVer THEN st
    ELSE IF Has(st.boot[st.restored]["vmlinuz"])
         THEN [st EXCEPT !.boot = remove_kernel_from_boot(st.boot, st.restored)]
         ELSE st

\* restore_kernel(ver); ret is its return value.
\* restore_kernel(ver) after _clean_previous_restore(): copy the backed-up
\* files and write the marker, or clear the marker.
place_kernel(c, ver) ==
    IF ~Has(c.boot[ver]["vmlinuz"])
    THEN [c EXCEPT
            !.boot[ver] =
               [a \in Artifacts |->
                  IF Has(backups[ver][1][a])
                  THEN Some([c |-> backups[ver][1][a][1], by |-> "eng"])
                  ELSE c.boot[ver][a]],
            !.restored = ver]
    ELSE [c EXCEPT !.restored = NoVer]

\* (variant) grubby is not run
set_default_skipped(r, ver) == Try(r, r)

\* subprocess.run(["grubby", "--set-default", ...], check=True): grubby
\* exits non-zero when no boot entry of the kernel exists, and check=True
\* turns that into an exception.
set_default(r, ver) ==
    IF r.err THEN r
    ELSE IF ~Has(r.boot[ver]["bls"]) THEN Fail(r)
    ELSE Try(r, [r EXCEPT !.grub = ver])

restore_kernel(st, ver) ==
    IF ~Has(backups[ver]) THEN [st EXCEPT !.ret = FALSE]
    ELSE set_default(place_kernel(clean_previous_restore(st), ver), ver)

\* snapshot_kernel_version(ts_str)
snapshot_kernel_version(ts) == IF snapDir THEN markers[ts] ELSE None

\* (variant) the kernel image is stored under every name of the record
backup_kernel_image_only ==
    IF Has(backups[running]) THEN backups
    ELSE [backups EXCEPT
            ![running] = Some([a \in Artifacts |->
                                 IF Has(boot[running]["vmlinuz"])
                                 THEN Some(boot[running]["vmlinuz"][1].c)
                                 ELSE None])]

\* backup_kernel(): the new content of BOOT_BACKUP_DIR.
backup_kernel ==
    IF Has(backups[running]) THEN backups
    ELSE [backups EXCEPT
            ![running] = Some([a \in Artifacts |->
                                 IF Has(boot[running][a]) THEN Some(boot[running][a][1].c)
                                 ELSE None])]

\* prune_kernel_backups: the timestamps of the names of SNAP_DIR that match
\* ^.+\.(\d{8}T(?:\d{6}|\d{4}))$ -- the entries, and also the marker files
\* .kernel.<ts> themselves.
live_timestamps ==
    { e[2] : e \in snaps } \cup { t \in Stamps : Has(markers[t]) }

\* the markers prune_kernel_backups leaves
pruned_markers ==
    [t \in Stamps |-> IF t \notin live_timestamps THEN None ELSE markers[t]]

\* (variant) only the marker of the newest entry is read
referenced_newest ==
    { markers[t][1] : t \in { u \in Stamps : Has(markers[u]) /\ u \in live_timestamps
                                              /\ \A e \in snaps : ~StrLess(u, e[2]) } }

\* the versions read from the markers it leaves
referenced ==
    { markers[t][1] : t \in { u \in Stamps : Has(markers[u]) /\ u \in live_timestamps } }

(***************************************************************************)
(* cli/rollback.py                                                         *)
(***************************************************************************)
SubOrder == << "home", "root" >>

\* The names before the timestamp that file names of SNAP_DIR are drawn with,
\* in str order; DotNames are those that start with ".".
NameOrder == << ".cache", ".kernel", "home", "my.vol", "root" >>
DotNames == { ".cache", ".kernel" }

\* sorted(subs)
SortedSubs(S) == SelectSeq(NameOrder, LAMBDA x : x \in S)

\* re.match(r"^(.+)\.(\d{8}T(?:\d{6}|\d{4}))$", fname): the name ends in a
\* dot and 8 digits, "T", and 4 or 6 digits (g = 0: it does not).
matches(t) == t.g \in {4, 6}

DaysInMonth(y, m) ==
    IF m = 2 THEN (IF IsLeap(y) THEN 29 ELSE 28)
    ELSE IF m \in {4, 6, 9, 11} THEN 30 ELSE 31

\* Whether datetime.strptime(ts_str, fmt) returns for one of the two formats.
\* With 6 digits after the T only "%Y%m%dT%H%M%S" can match.  With 4 digits
\* d1 d2 d3 d4 that format matches too, its directives taking one or two
\* digits each: (d1d2, d3, d4) when d1d2 <= 23, else (d1, d2d3, d4) when
\* d2 <= 5, else (d1, d2, d3d4) when d3 <= 5; whenever "%Y%m%dT%H%M" would
\* match, the first format has matched already.
strptime_ok(t) ==
    /\ matches(t)
    /\ t.y >= 1 /\ t.mo \in 1..12 /\ t.d \in 1..DaysInMonth(t.y, t.mo)
    /\ IF t.g = 6 THEN t.h <= 23 /\ t.mi <= 59 /\ t.s <= 59
       ELSE \/ t.h <= 23
            \/ t.h % 10 <= 5
            \/ t.mi \div 10 <= 5

\* the least of a non-empty set of timestamp strings
MinStamp(S) == CHOOSE t \in S : \A u \in S : u = t \/ StrLess(t, u)

RECURSIVE SortStamps(_)
SortStamps(S) ==
    IF S = {} THEN << >>
    ELSE << MinStamp(S) >> \o SortStamps(S \ {MinStamp(S)})

\* build_snapshot_table(): [(ts_str, sorted(subs))], sorted by ts_str.
build_snapshot_table ==
    IF ~snapDir THEN << >>
    ELSE LET kept == { e \in snaps : e[1] \notin DotNames /\ strptime_ok(e[2]) }
             ts == SortStamps({ e[2] : e \in kept })
         IN  [i \in 1..Len(ts) |->
                << ts[i], SortedSubs({ e[1] : e \in { x \in kept : x[2] = ts[i] } }) >>]

\* "Clear undo buffer": delete every item of old/ in listdir order ord.
RECURSIVE delete_all(_, _, _)
delete_all(st, ord, i) ==
    IF i > Len(ord) THEN st
    ELSE delete_all(IF Has(st.old[ord[i]])
                    THEN Try(st, [st EXCEPT !.old[ord[i]] = None])
                    ELSE st,
                    ord, i + 1)

\* (variant) the undo buffer is never emptied
clear_undo_keep(st, ord) == [st EXCEPT !.oldDir = TRUE]

\* "Clear undo buffer" of execute_rollback
clear_undo(st, ord) ==
    IF st.oldDir THEN delete_all(st, ord, 1) ELSE [st EXCEPT !.oldDir = TRUE]

\* os.rename(live, old): raises when live is missing or old/<sub> exists.
rename_live_old(st, sub) ==
    IF st.err THEN st
    ELSE IF ~Has(st.live[sub]) \/ Has(st.old[sub]) THEN Fail(st)
    ELSE Try(st, [st EXCEPT !.old[sub] = st.live[sub], !.live[sub] = None])

\* (variant) the entry is moved to live instead of being copied
snapshot_to_live_moved(st, sub, ts) ==
    Try(st, [st EXCEPT !.live[sub] = Some(ts), !.snaps = @ \ { << sub, ts >> }])

\* btrfs subvolume snapshot <snap> <live>: a writable copy of the entry;
\* the entry itself stays in SNAP_DIR (st.snaps).
snapshot_to_live(st, sub, ts) == Try(st, [st EXCEPT !.live[sub] = Some(ts)])

\* (variant) the live subvolume is copied into old/ and stays live
swap_one_in_place(st, sub, ts) ==
    IF st.err THEN st
    ELSE Try(st, [st EXCEPT !.old[sub] = st.live[sub]])

\* One turn of the loop of execute_rollback.
swap_one(st, sub, ts) == snapshot_to_live(rename_live_old(st, sub), sub, ts)

RECURSIVE swap_all(_, _, _, _)
swap_all(st, plan, ts, i) ==
    IF i > Len(plan) THEN st
    ELSE swap_all(swap_one(st, plan[i], ts), plan, ts, i + 1)

\* (variant) the return value of restore_kernel is ignored
clear_and_swap_anyway(s1, plan, ts, ord) == swap_all(clear_undo(s1, ord), plan, ts, 1)

\* execute_rollback(plan, ts_str) from "Clear undo buffer" on; s1 is the
\* state the kernel step left.
clear_and_swap(s1, plan, ts, ord) ==
    IF ~s1.ret THEN s1
    ELSE swap_all(clear_undo(s1, ord), plan, ts, 1)

\* (variant) the kernel is restored after the subvolumes were swapped
execute_rollback_kernel_last(st, plan, ts, ord) ==
    IF swap_all(clear_undo(st, ord), plan, ts, 1).err
       \/ ~Has(snapshot_kernel_version(ts))
    THEN swap_all(clear_undo(st, ord), plan, ts, 1)
    ELSE restore_kernel(swap_all(clear_undo(st, ord), plan, ts, 1),
                        snapshot_kernel_version(ts)[1])

\* (variant) without a kernel marker the previously restored kernel is
\* taken out of /boot
execute_rollback_unrestore(st, plan, ts, ord) ==
    clear_and_swap(IF Has(snapshot_kernel_version(ts))
                   THEN restore_kernel(st, snapshot_kernel_version(ts)[1])
                   ELSE [clean_previous_restore(st) EXCEPT !.restored = NoVer],
                   plan, ts, ord)

\* execute_rollback(plan, ts_str)
execute_rollback(st, plan, ts, ord) ==
    clear_and_swap(IF Has(snapshot_kernel_version(ts))
                   THEN restore_kernel(st, snapshot_kernel_version(ts)[1])
                   ELSE st,
                   plan, ts, ord)

(***************************************************************************)
(* cli/revert.py                                                           *)
(***************************************************************************)
\* One turn of the loop of main: three renames through <sub>_revert_tmp.
\* A rename raises when its source is missing or its target exists.
rename_live_tmp(st, sub) ==
    IF st.err THEN st
    ELSE IF ~Has(st.live[sub]) \/ Has(st.tmp[sub]) THEN Fail(st)
    ELSE Try(st, [st EXCEPT !.tmp[sub] = st.live[sub], !.live[sub] = None])

rename_old_live(st, sub) ==
    Try(st, [st EXCEPT !.live[sub] = st.old[sub], !.old[sub] = None])

\* (variant) the displaced live instance is dropped, not moved into old/
rename_tmp_old_drop(st, sub) == Try(st, [st EXCEPT !.tmp[sub] = None])

rename_tmp_old(st, sub) ==
    Try(st, [st EXCEPT !.old[sub] = st.tmp[sub], !.tmp[sub] = None])

\* (variant) a revert that also makes the running kernel the default again
revert_one_default(st, sub) ==
    [(rename_tmp_old(rename_old_live(rename_live_tmp(st, sub), sub), sub)) EXCEPT !.grub = running]

revert_one(st, sub) ==
    rename_tmp_old(rename_old_live(rename_live_tmp(st, sub), sub), sub)

RECURSIVE revert_all(_, _, _)
revert_all(st, todo, i) ==
    IF i > Len(todo) THEN st
    ELSE revert_all(revert_one(st, todo[i]), todo, i + 1)

\* (variant) every name is taken for a held subvolume
to_revert_all(ord) == ord

\* (variant) only the first held subvolume listed is reverted
to_revert_first(ord) ==
    IF Has(old[ord[1]]) THEN << ord[1] >>
    ELSE SelectSeq(ord, LAMBDA x : Has(old[x]))

\* to_revert: the items of old/ that are subvolumes, in listdir order ord.
to_revert(ord) == SelectSeq(ord, LAMBDA x : Has(old[x]))

(***************************************************************************)
(* The commands.                                                           *)
(***************************************************************************)
\* What a command in flight leaves on disk.
Commit(st) ==
    /\ live' = st.live
    /\ oldDir' = st.oldDir
    /\ old' = st.old
    /\ tmp' = st.tmp
    /\ boot' = st.boot
    /\ restored' = st.restored
    /\ grub' = st.grub
    /\ snaps' = st.snaps

\* sys.exit(...) before anything was touched
Abort(op, out, u) ==
    /\ Commit(Cmd(0))
    /\ faults' = faults
    /\ last' = [Exit(op, out) EXCEPT !.unsafeYes = u]

Outcome(st) ==
    IF ~st.ret THEN "kernel_backup_missing"
    ELSE IF st.err THEN "crash"
    ELSE "ok"

\* A command that got past its checks ends: st is what it left.
Finish(op, st, ts, plan, u) ==
    /\ Commit(st)
    /\ faults' = IF st.f > 0 THEN faults - 1 ELSE faults
    /\ last' = Done(op, Outcome(st), ts, plan, u)

\* The calls of a command that the environment may make fail: any one of the
\* k calls a run without such a failure makes, or none (0); none once the
\* failures of the run are used up.
FailPoints(k) == IF faults > 0 THEN 0..k ELSE {0}

\* --subvols: absent (<< >>), or names in the order given
Selections ==
    { << >> } \cup { << x >> : x \in Subvols }
    \cup { q \in [1..2 -> Subvols] : q[1] # q[2] }

\* A line of /etc/fstab, by what check_fstab_safety reads of it (hasBtrfs:
\* "btrfs" in line, hasSubvolid: "subvolid=" in line, startsHash: the
\* stripped line starts with "#") and by what it is (comment, fstype, byid:
\* its options field holds subvolid=).
Line(comment, fstype, byid, hasBtrfs, hasSubvolid, startsHash) ==
    [comment |-> comment, fstype |-> fstype, byid |-> byid,
     hasBtrfs |-> hasBtrfs, hasSubvolid |-> hasSubvolid, startsHash |-> startsHash]

FstabLines ==
    { \* UUID=x / btrfs subvolid=256 0 0
      Line(FALSE, "btrfs", TRUE, TRUE, TRUE, FALSE),
      \* UUID=x / btrfs subvol=root 0 0
      Line(FALSE, "btrfs", FALSE, TRUE, FALSE, FALSE),
      \* # UUID=x / btrfs subvolid=256 0 0
      Line(TRUE, "btrfs", TRUE, TRUE, TRUE, TRUE),
      \* UUID=y /boot ext4 defaults 0 0
      Line(FALSE, "ext4", FALSE, FALSE, FALSE, FALSE),
      \* UUID=x / btrfs subvol=root 0 0 # was subvolid=5
      Line(FALSE, "btrfs", FALSE, TRUE, TRUE, FALSE) }

\* /etc/fstab: its lines, or None when it cannot be opened
Fstabs == { Some(ls) : ls \in SUBSET FstabLines } \cup { None }

\* (variant) --yes does not stop the prompt
check_fstab_safety_asks(fstab, interactive, answer) ==
    IF Has(fstab) /\ (\E l \in fstab[1] : l.hasBtrfs /\ l.hasSubvolid /\ ~l.startsHash)
       /\ answer # "y"
    THEN "fstab_declined" ELSE "pass"

\* lib.check_fstab_safety(interactive) over the file fstab and the answer
\* typed at "Proceed anyway? (y/N)": where it exits, or "pass".
check_fstab_safety(fstab, interactive, answer) ==
    LET issues == IF Has(fstab)
                  THEN { l \in fstab[1] : l.hasBtrfs /\ l.hasSubvolid /\ ~l.startsHash }
                  ELSE {}
    IN  IF issues = {} THEN "pass"
        ELSE IF ~interactive THEN "fstab_refused"
        ELSE IF answer # "y" THEN "fstab_declined"
        ELSE "pass"

\* fstab holds a non-comment btrfs entry that mounts by subvolid=
MountsBySubvolid(fstab) ==
    Has(fstab) /\ \E l \in fstab[1] : ~l.comment /\ l.fstype = "btrfs" /\ l.byid

\* What can come of the start of rollback and revert over every /etc/fstab,
\* --yes or not, and every answer: the exit of check_fstab_safety, with the
\* --yes given and whether that was --yes on an fstab mounting by subvolid=.
FstabOutcomes ==
    { [out |-> check_fstab_safety(fs, ~yes, ans), yes |-> yes,
       unsafeYes |-> yes /\ MountsBySubvolid(fs)] :
        fs \in Fstabs, yes \in BOOLEAN, ans \in {"y", "n"} }

\* The listdir order of old/ matters only when it holds more than one item.
ListOrders == IF \A s \in Subvols : Has(old[s]) THEN Perms(Subvols) ELSE { SubOrder }

\* (variant) 0 is taken for a valid number
valid_number_from_zero(n, table) == Len(table) > 0 /\ n >= 0 /\ n <= Len(table)

\* not (args.snapshot < 1 or args.snapshot > len(table))
valid_number(n, table) == ~(n < 1 \/ n > Len(table))

\* table[args.snapshot - 1]: index -1 is the last element
entry(table, n) == table[IF n = 0 THEN Len(table) ELSE n]

\* rollback.main.  --snapshot n; the interactive command loop ends in the
\* same plan (or in "Cancelled.") as --snapshot with a valid number.
RollbackMain ==
    /\ UNCHANGED gui
    /\ UNCHANGED << snapDir, markers, backups, running, conf, made >>
    /\ \E root \in BOOLEAN, g \in FstabOutcomes :
         IF ~root THEN Abort("rollback", "root_required", g.unsafeYes)
         ELSE IF ~Has(conf) THEN Abort("rollback", "no_config", g.unsafeYes)
         ELSE IF g.out # "pass" THEN Abort("rollback", g.out, g.unsafeYes)
         ELSE LET table == build_snapshot_table IN
           \E n \in 0..(Len(table) + 1) :
             IF ~valid_number(n, table)
             THEN /\ Commit(Cmd(0))
                  /\ faults' = faults
                  /\ last' = [Exit("rollback", "invalid_number") EXCEPT
                                !.n = n, !.range = Len(table),
                                !.unsafeYes = g.unsafeYes]
             ELSE LET ts == entry(table, n)[1]
                      available == entry(table, n)[2]
                  IN
               \E sel \in Selections :
                 IF \E i \in 1..Len(sel) : \A j \in 1..Len(available) : available[j] # sel[i]
                 THEN Abort("rollback", "not_in_snapshot", g.unsafeYes)
                 ELSE LET plan == IF sel = << >> THEN available ELSE sel IN
                   \E confirm \in (IF g.yes THEN {TRUE} ELSE BOOLEAN) :
                     IF ~confirm THEN Abort("rollback", "cancelled", g.unsafeYes)
                     ELSE \E ord \in ListOrders :
                       \E f \in FailPoints(execute_rollback(Cmd(0), plan, ts, ord).k) :
                         /\ Commit(execute_rollback(Cmd(f), plan, ts, ord))
                         /\ faults' = IF f > 0 THEN faults - 1 ELSE faults
                         /\ last' = [Done("rollback",
                                          Outcome(execute_rollback(Cmd(f), plan, ts, ord)),
                                          ts, plan, g.unsafeYes)
                                     EXCEPT !.n = n]

\* revert.main
RevertMain ==
    /\ UNCHANGED gui
    /\ UNCHANGED << snapDir, markers, backups, running, conf, made >>
    /\ \E root \in BOOLEAN, g \in FstabOutcomes :
         IF ~root THEN Abort("revert", "root_required", g.unsafeYes)
         ELSE IF ~Has(conf) THEN Abort("revert", "no_config", g.unsafeYes)
         ELSE IF g.out # "pass" THEN Abort("revert", g.out, g.unsafeYes)
         ELSE IF ~oldDir THEN Abort("revert", "no_undo_buffer", g.unsafeYes)
         ELSE \E ord \in ListOrders :
           IF to_revert(ord) = << >> THEN Abort("revert", "old_empty", g.unsafeYes)
           ELSE \E confirm \in (IF g.yes THEN {TRUE} ELSE BOOLEAN) :
             IF ~confirm THEN Abort("revert", "cancelled", g.unsafeYes)
             ELSE \E f \in FailPoints(revert_all(Cmd(0), to_revert(ord), 1).k) :
               Finish("revert", revert_all(Cmd(f), to_revert(ord), 1),
                      Cur, to_revert(ord), g.unsafeYes)

\* lib.discover_subvolumes(): the live subvolumes, sorted
discover_subvolumes == SelectSeq(SubOrder, LAMBDA x : Has(live[x]))

\* snapshot.main (without --enable-timer/--disable-timer).  Line 115 calls
\* lib.clear_old_buffer, which lib.py does not define: the AttributeError
\* ends the command before the loop over discover_subvolumes() starts, so
\* no snapshot-store call is made.  bad: the subvolumes whose store calls
\* the environment makes fail in this cycle (last.failed); last.tried: the
\* subvolumes the loop reached.
SnapshotMain ==
    /\ UNCHANGED gui
    /\ UNCHANGED diskVars
    /\ \E root \in BOOLEAN :
         IF ~root THEN last' = Exit("snapshot", "root_required")
         ELSE IF ~Has(conf) THEN last' = Exit("snapshot", "no_config")
         ELSE \E bad \in (IF faults > 0
                          THEN { {} } \cup { {discover_subvolumes[i]} : i \in 1..Len(discover_subvolumes) }
                          ELSE { {} }) :
                last' = [Exit("snapshot", "crash") EXCEPT !.failed = bad, !.tried = {}]

\* What the files of version v in /boot hold: artifact -> None/Some(content)
BootContents(v) ==
    [a \in Artifacts |-> IF Has(boot[v][a]) THEN Some(boot[v][a][1].c) ELSE None]

\* lib.backup_kernel()
BackupKernel ==
    /\ UNCHANGED gui
    /\ backups' = backup_kernel
    /\ made' = IF Has(backups[running]) THEN made
               ELSE [made EXCEPT ![running] = Some(BootContents(running))]
    /\ last' = [Exit("backup_kernel", "ok") EXCEPT !.sub = running]
    /\ UNCHANGED << live, oldDir, old, tmp, snapDir, snaps, markers, boot,
                    restored, grub, running, conf, faults >>

\* lib.restore_kernel(ver)
RestoreKernel(ver) ==
    /\ UNCHANGED gui
    /\ \E f \in FailPoints(1) :
         /\ Commit(restore_kernel(Cmd(f), ver))
         /\ faults' = IF f > 0 THEN faults - 1 ELSE faults
         /\ last' = [Exit("restore_kernel", Outcome(restore_kernel(Cmd(f), ver)))
                       EXCEPT !.sub = ver, !.prev = restored]
    /\ UNCHANGED << snapDir, markers, backups, running, conf, made >>

\* lib.prune_kernel_backups()
PruneKernelBackups ==
    /\ UNCHANGED gui
    /\ IF ~snapDir THEN UNCHANGED << markers, backups >>
       ELSE /\ markers' = pruned_markers
            /\ backups' = [v \in Versions |->
                             IF v \notin referenced THEN None ELSE backups[v]]
    /\ last' = Exit("prune_kernel", "ok")
    /\ UNCHANGED << live, oldDir, old, tmp, snapDir, snaps, boot, restored,
                    grub, running, conf, faults >>
    /\ made' = [v \in Versions |-> IF Has(backups'[v]) THEN made[v] ELSE None]

\* The machine is rebooted into a kernel whose image is in /boot.
Reboot ==
    /\ UNCHANGED gui
    /\ \E v \in Versions :
         /\ Has(boot[v]["vmlinuz"])
         /\ v # running
         /\ running' = v
    /\ last' = Exit("reboot", "ok")
    /\ UNCHANGED << live, oldDir, old, tmp, snapDir, snaps, markers, backups,
                    boot, restored, grub, conf, faults, made >>

(***************************************************************************)
(* Initial states.                                                         *)
(***************************************************************************)
\* The file of artifact a that the system installed for version v; its
\* content is the pair << v, a >>.
SysFile(v, a) == Some([c |-> << v, a >>, by |-> "sys"])
FullBoot(v) == [a \in Artifacts |-> SysFile(v, a)]
\* a backup record made when /boot/vmlinuz-<ver> did not exist
PartialBackup(v) ==
    Some([a \in Artifacts |-> IF a = "vmlinuz" THEN None ELSE Some(<< v, a >>)])
FullBackup(v) == Some([a \in Artifacts |-> Some(<< v, a >>)])
ZeroRetention == [hourly |-> 0, daily |-> 0, weekly |-> 0, monthly |-> 0]

\* the newest k timestamps of StampSeq
Newest(k) == { StampSeq[Len(StampSeq) - i] : i \in 0..(k - 1) }
NewestStamp == StampSeq[Len(StampSeq)]

InitTree ==
    /\ gui = NoGui
    /\ live = [s \in Subvols |-> Some(Cur)]
    /\ oldDir \in BOOLEAN
    /\ old = NoSubvols
    /\ tmp = NoSubvols
    /\ restored = NoVer
    /\ last = Exit("init", "ok")

\* Rollback and revert, when no external call fails for a reason outside
\* the model (a missing source still makes a rename fail).  The snapshot directory is missing, empty, or holds
\* up to MaxSessions sessions of all subvolumes (the newest one possibly of
\* "root" alone); the newest session may have a kernel marker (the older
\* ones predate the tracking), whose backup record may be missing.
Init ==
    /\ InitTree
    /\ snapDir \in BOOLEAN
    /\ \E k \in 0..MaxSessions, rootOnly \in BOOLEAN :
         snaps = (Subvols \X Newest(k))
                   \ (IF rootOnly THEN { << "home", NewestStamp >> } ELSE {})
    /\ snapDir = FALSE => snaps = {}
    /\ \E m \in {None, Some("k1")} :
         markers = [t \in Stamps |->
                      IF t = NewestStamp /\ snaps # {} THEN m ELSE None]
    /\ \E b \in {None, FullBackup("k1")} :
         backups = [v \in Versions |-> IF v = "k1" THEN b ELSE None]
    /\ Has(backups["k1"]) => Has(markers[NewestStamp])
    /\ boot = [v \in Versions |-> IF v = "k2" THEN FullBoot(v) ELSE NoFiles]
    /\ running = "k2"
    /\ grub = "k2"
    /\ conf \in {None, Some(ZeroRetention)}
    /\ faults = 0
    /\ made = [v \in Versions |-> None]

Next ==
    \/ RollbackMain
    \/ RevertMain
    \/ SnapshotMain

Spec == Init /\ [][Next]_vars

\* The same commands when up to MaxFaults of them die at an external call
\* that raises (a delete, a rename, a snapshot, grubby), over a configured
\* machine whose snapshot directory holds one session.
InitFaults ==
    /\ InitTree
    /\ snapDir = TRUE
    /\ \E rootOnly \in BOOLEAN :
         snaps = (Subvols \X Newest(1))
                   \ (IF rootOnly THEN { << "home", NewestStamp >> } ELSE {})
    /\ \E m \in {None, Some("k1")} :
         markers = [t \in Stamps |-> IF t = NewestStamp THEN m ELSE None]
    /\ backups = [v \in Versions |->
                    IF v = "k1" /\ Has(markers[NewestStamp]) THEN FullBackup(v) ELSE None]
    /\ boot = [v \in Versions |-> IF v = "k2" THEN FullBoot(v) ELSE NoFiles]
    /\ running = "k2"
    /\ grub = "k2"
    /\ conf = Some(ZeroRetention)
    /\ faults = MaxFaults
    /\ made = [v \in Versions |-> None]

SpecFaults == InitFaults /\ [][Next]_vars

(***************************************************************************)
(* Rollback and revert: the claims.                                        *)
(***************************************************************************)
Range(q) == { q[i] : i \in 1..Len(q) }

\* the step is a command op that ended with out
Ran(op, out) == last'.op = op /\ last'.out = out

TreeUnchanged == UNCHANGED << live, oldDir, old, tmp >>
BootUnchanged == UNCHANGED << boot, restored, grub >>

\* C1: a revert that runs to its end right after a rollback(S, plan) that ran
\* to its end leaves every subvolume A of the plan live with the content it
\* had before the rollback, and the undo buffer holding A with the content of
\* the entry (A, S) -- what the rollback had made live -- not the original.
C1_RollbackThenRevert ==
    [][ (last.op = "rollback" /\ last.out = "ok" /\ Ran("revert", "ok"))
        => \A A \in Range(last.plan) :
              /\ Has(last.preLive[A])
              /\ live'[A] = last.preLive[A]
              /\ old'[A] = Some(last.ts) ]_vars

\* a revert ran right after a rollback, and put the original content back
\* where the content differs from the session's
C1_Witness ==
    /\ last.op = "revert" /\ last.out = "ok" /\ last.prev = "rollback"
    /\ \E A \in Subvols : live[A] = Some(Cur) /\ Has(old[A]) /\ old[A] # Some(Cur)

\* C2: a rollback whose session has a kernel marker naming a version with no
\* backup record ends with "kernel ... backup not found" and leaves every
\* live subvolume, the undo buffer, the boot directory, the default entry and
\* the Restored-Kernel Marker as they were.
C2_MissingBackupAborts ==
    [][ (last'.op = "rollback" /\ last'.ts # Cur
         /\ Has(markers[last'.ts]) /\ ~Has(backups[markers[last'.ts][1]]))
        => /\ last'.out = "kernel_backup_missing"
           /\ TreeUnchanged
           /\ BootUnchanged ]_vars

\* such a rollback was refused while the undo buffer held something
C2_Witness ==
    /\ last.op = "rollback" /\ last.out = "kernel_backup_missing"
    /\ Has(markers[last.ts]) /\ ~Has(backups[markers[last.ts][1]])
    /\ \E s \in Subvols : Has(old[s])

\* C3: after a rollback(S, plan) that ran to its end the undo buffer holds
\* exactly the live instances the subvolumes of the plan had before it, and
\* nothing else; a revert that then runs to its end puts the whole live tree
\* back to what it was just before that rollback.
C3_SingleSlot ==
    [][ /\ Ran("rollback", "ok")
           => /\ oldDir'
              /\ \A s \in Range(last'.plan) : Has(live[s])
              /\ old' = [s \in Subvols |->
                           IF s \in Range(last'.plan) THEN live[s] ELSE None]
        /\ (last.op = "rollback" /\ last.out = "ok" /\ Ran("revert", "ok"))
           => live' = last.preLive ]_vars

\* a second rollback in a row dropped an instance the first one had held
C3_Witness ==
    /\ last.op = "rollback" /\ last.out = "ok" /\ last.prev = "rollback"
    /\ \E s \in Subvols : Has(last.preOld[s]) /\ old[s] # last.preOld[s]

\* C4: two reverts in a row that run to their end leave every live subvolume
\* and every held subvolume as they were before the first.
C4_RevertTwice ==
    [][ (last.op = "revert" /\ last.out = "ok" /\ Ran("revert", "ok"))
        => /\ live' = last.preLive
           /\ old' = last.preOld
           /\ oldDir' /\ tmp' = tmp ]_vars

\* a second revert ran, of a buffer whose content differs from the live one
C4_Witness ==
    /\ last.op = "revert" /\ last.out = "ok" /\ last.prev = "revert"
    /\ \E s \in Subvols : Has(old[s]) /\ old[s] # live[s]

\* C5: a revert started when old/ is absent, or holds no subvolume, ends with
\* "No undo buffer" resp. "old/ is empty" (or with one of the exits before
\* that check), never goes on, and changes nothing.
C5_NothingToRevert ==
    [][ (last'.op = "revert" /\ (~oldDir \/ \A s \in Subvols : ~Has(old[s])))
        => /\ last'.out \in {"root_required", "no_config", "fstab_refused",
                             "fstab_declined",
                             IF oldDir THEN "old_empty" ELSE "no_undo_buffer"}
           /\ TreeUnchanged
           /\ BootUnchanged ]_vars

\* a revert found old/ present and empty
C5_Witness ==
    /\ last.op = "revert" /\ last.out = "old_empty"
    /\ oldDir /\ \A s \in Subvols : ~Has(old[s])

(***************************************************************************)
(* The kernel backup tracker with the commands that drive it.              *)
(***************************************************************************)
Older == StampSeq[Len(StampSeq) - 1]

\* The machine runs the installed kernel k3; SNAP_DIR holds two sessions of
\* "root": the older made under k1, with or without its kernel marker and
\* with a backup record that is missing, complete or without image; the
\* newer made under k2, with its marker and a record complete or without
\* image.
InitKernel ==
    /\ gui = NoGui
    /\ live = [s \in Subvols |-> Some(Cur)]
    /\ oldDir = FALSE
    /\ old = NoSubvols
    /\ tmp = NoSubvols
    /\ restored = NoVer
    /\ last = Exit("init", "ok")
    /\ snapDir = TRUE
    /\ snaps = {"root"} \X {Older, NewestStamp}
    /\ \E m1 \in {None, Some("k1")} :
         markers = [t \in Stamps |->
                      IF t = Older THEN m1
                      ELSE IF t = NewestStamp THEN Some("k2") ELSE None]
    /\ \E b1 \in {None, FullBackup("k1"), PartialBackup("k1")},
          b2 \in {FullBackup("k2"), PartialBackup("k2")} :
         backups = [v \in Versions |->
                      IF v = "k1" THEN b1 ELSE IF v = "k2" THEN b2 ELSE None]
    /\ boot = [v \in Versions |-> IF v = "k3" THEN FullBoot(v) ELSE NoFiles]
    /\ running = "k3"
    /\ grub = "k3"
    /\ conf = Some(ZeroRetention)
    /\ faults = 0
    /\ made = [v \in Versions |-> None]

NextKernel ==
    \/ BackupKernel
    \/ \E ver \in Versions : RestoreKernel(ver)
    \/ PruneKernelBackups
    \/ \E sub \in Subvols : PruneSnapshots(sub)
    \/ RollbackMain
    \/ SnapshotMain
    \/ Reboot

SpecKernel == InitKernel /\ [][NextKernel]_vars

Entries == { e[2] : e \in snaps }

EnginePlaced(v) == \E a \in Artifacts : Has(boot[v][a]) /\ boot[v][a][1].by = "eng"

\* C9: after prune_kernel_backups no kernel marker is left whose timestamp
\* has no snapshot entry, and no backup record is left whose version no
\* marker names.
C9_OrphansReclaimed ==
    last.op = "prune_kernel"
    => /\ \A t \in Stamps : Has(markers[t]) => t \in Entries
       /\ \A v \in Versions :
            Has(backups[v]) => \E t \in Stamps : markers[t] = Some(v)

\* C10: /boot holds engine-placed files of at most one kernel version, and
\* when the Restored-Kernel Marker exists it names that version.
C10_OneEngineKernel ==
    /\ Cardinality({ v \in Versions : EnginePlaced(v) }) <= 1
    /\ restored # NoVer => \A v \in Versions : EnginePlaced(v) => v = restored

(***************************************************************************)
(* The retention prune on drawn histories.                                 *)
(***************************************************************************)
Histories == { H \in SUBSET Stamps : Cardinality(H) \in 1..MaxHist }

Retentions ==
    [hourly : 0..MaxCount, daily : 0..MaxCount, weekly : 0..MaxCount,
     monthly : 0..MaxCount]

\* prune_snapshots applied to any history of up to MaxHist entries and any
\* retention of counts up to MaxCount; "home" has no entry.
InitPrune ==
    /\ gui = NoGui
    /\ live = [s \in Subvols |-> Some(Cur)]
    /\ oldDir = FALSE
    /\ old = NoSubvols
    /\ tmp = NoSubvols
    /\ restored = NoVer
    /\ last = Exit("init", "ok")
    /\ snapDir = TRUE
    /\ \E H \in Histories : snaps = {"root"} \X H
    /\ markers = [t \in Stamps |-> None]
    /\ backups = [v \in Versions |-> None]
    /\ boot = [v \in Versions |-> IF v = "k2" THEN FullBoot(v) ELSE NoFiles]
    /\ running = "k2"
    /\ grub = "k2"
    /\ conf \in { Some(r) : r \in Retentions }
    /\ faults = 0
    /\ made = [v \in Versions |-> None]

NextPrune == \E sub \in Subvols : PruneSnapshots(sub)

SpecPrune == InitPrune /\ [][NextPrune]_vars

\* What the retention policy says, on the instants the names stand for.
Newer(a, b) == LexLess(TrueInstant(b), TrueInstant(a))

MostRecent(H) == CHOOSE t \in H : \A u \in H : u = t \/ Newer(t, u)

Count(r, gran) ==
    CASE gran = "hourly" -> r.hourly
      [] gran = "daily" -> r.daily
      [] gran = "weekly" -> r.weekly
      [] gran = "monthly" -> r.monthly

Bucket(H, gran, t) ==
    { u \in H : KeyOf(gran, TrueInstant(u)) = KeyOf(gran, TrueInstant(t)) }

\* the newest entry of each of the first c distinct bucket keys, newest first
PolicySet(H, gran, c) ==
    LET heads == { MostRecent(Bucket(H, gran, t)) : t \in H }
    IN  { t \in heads : Cardinality({ u \in heads : Newer(u, t) }) < c }

PolicyKeep(H, r) ==
    {MostRecent(H)} \cup UNION { PolicySet(H, g, Count(r, g)) : g \in Grans }

\* C6: for every non-empty history of a subvolume and every retention, prune
\* does not try to evict the most recent entry, and with the four counts at 0
\* it tries to evict every entry but the most recent one.
C6_NewestKept ==
    [][ (last'.op = "prune" /\ StampsOf(last'.sub) # {})
        => /\ MostRecent(StampsOf(last'.sub)) \notin last'.tried
           /\ conf[1] = ZeroRetention
                => last'.tried = StampsOf(last'.sub)
                                   \ {MostRecent(StampsOf(last'.sub))} ]_vars

\* C7: the entries prune tries to evict are the history minus the newest
\* entry and the four per-granularity sets (the newest entry of each of the
\* first c distinct bucket keys, newest first).
C7_EvictionSet ==
    [][ (last'.op = "prune" /\ StampsOf(last'.sub) # {})
        => last'.tried = StampsOf(last'.sub)
                           \ PolicyKeep(StampsOf(last'.sub), conf[1]) ]_vars

\* C8: a prune of a subvolume right after a prune of the same subvolume that
\* deleted every entry it chose (and chose some) tries to evict nothing.
C8_PruneIdempotent ==
    [][ (last.op = "prune" /\ last.failed = {}
         /\ last'.op = "prune" /\ last'.sub = last.sub)
        => last'.tried = {} ]_vars

\* the second prune went over more than one kept entry
C8_Witness ==
    /\ last.op = "prune" /\ last.prev = "prune" /\ last.tried = {}
    /\ Cardinality(StampsOf(last.sub)) > 1

(***************************************************************************)
(* The kernel tracker on a machine whose kernels come and go.              *)
(***************************************************************************)
\* The package manager removes an installed kernel that is not running.
KernelRemoved ==
    /\ UNCHANGED gui
    /\ \E v \in Versions \ {running} :
         /\ boot[v] # NoFiles
         /\ boot' = [boot EXCEPT ![v] = NoFiles]
    /\ last' = Exit("kernel_removed", "ok")
    /\ UNCHANGED << live, oldDir, old, tmp, snapDir, snaps, markers, backups,
                    restored, grub, running, conf, faults, made >>

\* The system rebuilds the initramfs of an installed kernel: new content.
Regenerate ==
    /\ UNCHANGED gui
    /\ \E v \in Versions :
         /\ Has(boot[v]["initramfs"])
         /\ boot[v]["initramfs"][1].c = << v, "initramfs" >>
         /\ boot' = [boot EXCEPT
                       ![v]["initramfs"] = Some([c |-> << v, "rebuilt" >>, by |-> "sys"])]
    /\ last' = Exit("regenerate", "ok")
    /\ UNCHANGED << live, oldDir, old, tmp, snapDir, snaps, markers, backups,
                    restored, grub, running, conf, faults, made >>

\* k3 runs, k2 is installed beside it, nothing was backed up yet.
InitTracker ==
    /\ gui = NoGui
    /\ live = [s \in Subvols |-> Some(Cur)]
    /\ oldDir = FALSE
    /\ old = NoSubvols
    /\ tmp = NoSubvols
    /\ restored = NoVer
    /\ last = Exit("init", "ok")
    /\ snapDir = TRUE
    /\ snaps = {}
    /\ markers = [t \in Stamps |-> None]
    /\ backups = [v \in Versions |-> None]
    /\ boot = [v \in Versions |-> IF v = "k1" THEN NoFiles ELSE FullBoot(v)]
    /\ running = "k3"
    /\ grub = "k3"
    /\ conf = Some(ZeroRetention)
    /\ faults = 0
    /\ made = [v \in Versions |-> None]

NextTracker ==
    \/ BackupKernel
    \/ \E ver \in Versions : RestoreKernel(ver)
    \/ Reboot
    \/ KernelRemoved
    \/ Regenerate

SpecTracker == InitTracker /\ [][NextTracker]_vars

\* C11: restore(v) of a record that backup_kernel made, on a /boot without
\* any file of v, puts the image, the initramfs and the boot entry back with
\* the contents they had when the record was made, and the Restored-Kernel
\* Marker is v afterwards.
C11_BackupRestoreRoundTrip ==
    [][ (last'.op = "restore_kernel" /\ last'.out = "ok"
         /\ Has(made[last'.sub]) /\ boot[last'.sub] = NoFiles)
        => /\ \A a \in Artifacts :
                /\ Has(made[last'.sub][1][a])
                /\ Has(boot'[last'.sub][a])
                /\ boot'[last'.sub][a][1].c = made[last'.sub][1][a][1]
           /\ restored' = last'.sub ]_vars

\* a record made before the initramfs was rebuilt was restored after the
\* kernel had been removed: the initramfs in /boot is the one backed up
C11_Witness ==
    /\ last.op = "restore_kernel" /\ last.out = "ok"
    /\ Has(made[last.sub])
    /\ restored = last.sub
    /\ Has(boot[last.sub]["initramfs"])
    /\ boot[last.sub]["initramfs"][1] = [c |-> << last.sub, "initramfs" >>, by |-> "eng"]
    /\ boot[last.sub]["vmlinuz"] = Some([c |-> << last.sub, "vmlinuz" >>, by |-> "eng"])

\* the version a step restored: restore_kernel's argument, or the version in
\* the kernel marker of the session a rollback went to
RestoredVersion ==
    IF last'.op = "restore_kernel" THEN last'.sub ELSE markers[last'.ts][1]

EnginePlacedIn(b, v) == \E a \in Artifacts : Has(b[v][a]) /\ b[v][a][1].by = "eng"

\* C19: after a restore(v) that returned True (called directly or by a
\* rollback that ran to its end) the default boot entry is v; the
\* Restored-Kernel Marker is v when the call copied v's files into /boot and
\* is absent when v's image was already there.
C19_RestoreDefaultAndMarker ==
    [][ ((last'.op = "restore_kernel" /\ last'.out = "ok")
         \/ (last'.op = "rollback" /\ last'.out = "ok" /\ Has(markers[last'.ts])))
        => /\ grub' = RestoredVersion
           /\ restored' = IF EnginePlacedIn(boot', RestoredVersion)
                          THEN RestoredVersion ELSE NoVer
           /\ EnginePlacedIn(boot', RestoredVersion)
                <=> (~Has(boot[RestoredVersion]["vmlinuz"])
                     \/ restored = RestoredVersion) ]_vars

\* the system's kernel was restored after an engine-placed one: that one is
\* gone from /boot and the marker is absent
C19_Witness ==
    /\ last.op = "restore_kernel" /\ last.out = "ok"
    /\ last.prev \in Versions /\ last.prev # last.sub
    /\ boot[last.prev] = NoFiles
    /\ boot[last.sub] = FullBoot(last.sub)
    /\ restored = NoVer /\ grub = last.sub

\* C12: a rollback or revert run with --yes while /etc/fstab holds a
\* non-comment btrfs entry that mounts by subvolid= exits (at the fstab check
\* or at a check before it) and changes no live subvolume, nothing of the undo
\* buffer and nothing of /boot.
C12_FstabRefusedNonInteractive ==
    [][ (last'.op \in {"rollback", "revert"} /\ last'.unsafeYes)
        => /\ last'.out \in {"root_required", "no_config", "fstab_refused"}
           /\ (Has(conf) /\ last'.out # "root_required") => last'.out = "fstab_refused"
           /\ TreeUnchanged
           /\ BootUnchanged ]_vars

\* a revert --yes was refused at the fstab check while the undo buffer held
\* something to put back
C12_Witness ==
    /\ last.op = "revert" /\ last.out = "fstab_refused" /\ last.unsafeYes
    /\ \E s \in Subvols : Has(old[s])

\* C13: a rollback that reads a --snapshot number outside 1..len(table), for
\* the table of that moment, exits with "Invalid snapshot number. Range:
\* 1-len(table)" and changes nothing, and one inside the range does not exit
\* so; with SNAP_DIR missing or empty the table is empty.
C13_NumberOutOfRange ==
    [][ (last'.op = "rollback" /\ last'.n # NoNumber)
        => /\ (last'.n < 1 \/ last'.n > Len(build_snapshot_table))
                <=> last'.out = "invalid_number"
           /\ last'.out = "invalid_number"
                => /\ last'.range = Len(build_snapshot_table)
                   /\ UNCHANGED diskVars
           /\ (~snapDir \/ snaps = {}) => Len(build_snapshot_table) = 0 ]_vars

\* a number one past the end of a table with sessions was refused
C13_Witness ==
    /\ last.op = "rollback" /\ last.out = "invalid_number"
    /\ last.range > 0 /\ last.n = last.range + 1
    /\ Len(build_snapshot_table) = last.range

(***************************************************************************)
(* build_snapshot_table on drawn directory listings.                       *)
(***************************************************************************)
\* largest number of names in a drawn listing of SNAP_DIR
MaxNames == 3

\* Timestamps of drawn names: 12:00 in both grains, the last second of 2023,
\* and digit strings of the right shape that name no instant (minute 60,
\* hour 24, hour 99, month 13, 30 February, second 60).
TableStamps ==
    { T(2024, 1, 1, 12, 0, 0, 4), T(2024, 1, 1, 12, 0, 0, 6),
      T(2023, 12, 31, 23, 59, 59, 6),
      T(2024, 1, 1, 9, 60, 0, 4), T(2024, 1, 1, 24, 0, 0, 4),
      T(2024, 1, 1, 99, 99, 0, 4),
      T(2024, 13, 1, 12, 0, 0, 6), T(2024, 2, 30, 12, 0, 0, 4),
      T(2024, 1, 1, 12, 0, 60, 6) }

\* File names: <name>.<digits> (the name may hold or start with a dot),
\* .kernel.<digits>, and names without suffix.
FileNames ==
    ({"root", "home", "my.vol"} \X TableStamps)
    \cup ({".kernel", ".cache"} \X { T(2024, 1, 1, 12, 0, 0, 4), T(2024, 1, 1, 12, 0, 0, 6) })
    \cup ({"root", "my.vol"} \X { Cur })

\* the listings of up to MaxNames names
RECURSIVE ListingsOf(_)
ListingsOf(k) ==
    IF k = 0 THEN { {} }
    ELSE LET L == ListingsOf(k - 1)
         IN  L \cup { D \cup {f} : D \in L, f \in FileNames }

Listings == ListingsOf(MaxNames)

\* what bread list and the GUI do: build the table
BuildTable ==
    /\ UNCHANGED gui
    /\ last' = [Exit("list", "ok") EXCEPT !.table = build_snapshot_table]
    /\ UNCHANGED diskVars

InitTable ==
    /\ gui = NoGui
    /\ live = [s \in Subvols |-> Some(Cur)]
    /\ oldDir = FALSE
    /\ old = NoSubvols
    /\ tmp = NoSubvols
    /\ restored = NoVer
    /\ last = Exit("init", "ok")
    /\ snapDir = TRUE
    /\ snaps \in Listings
    /\ markers = [t \in Stamps |-> None]
    /\ backups = [v \in Versions |-> None]
    /\ boot = [v \in Versions |-> IF v = "k2" THEN FullBoot(v) ELSE NoFiles]
    /\ running = "k2"
    /\ grub = "k2"
    /\ conf = Some(ZeroRetention)
    /\ faults = 0
    /\ made = [v \in Versions |-> None]

NextTable == BuildTable

SpecTable == InitTable /\ [][NextTable]_vars

\* a timestamp string that names an instant, in either grain
ValidStamp(t) ==
    /\ t.g \in {4, 6}
    /\ t.y >= 1 /\ t.mo \in 1..12 /\ t.d \in 1..DaysInMonth(t.y, t.mo)
    /\ t.h <= 23 /\ t.mi <= 59 /\ t.s <= 59

\* the names <name>.<valid timestamp>
ProperNames == { e \in snaps : e[1] \notin DotNames /\ ValidStamp(e[2]) }

NameLess(a, b) ==
    \E i, j \in 1..Len(NameOrder) : i < j /\ NameOrder[i] = a /\ NameOrder[j] = b

\* C14: the table has one session per distinct valid timestamp of a name
\* <name>.<valid timestamp> and no other, strictly ascending by timestamp,
\* each with the names of that timestamp sorted and without duplicates.
C14_TableOfValidNames ==
    last.op = "list"
    => /\ { last.table[i][1] : i \in 1..Len(last.table) }
            = { e[2] : e \in ProperNames }
       /\ \A i \in 1..(Len(last.table) - 1) :
            StrLess(last.table[i][1], last.table[i + 1][1])
       /\ \A i \in 1..Len(last.table) :
            /\ { last.table[i][2][j] : j \in 1..Len(last.table[i][2]) }
                 = { e[1] : e \in { x \in ProperNames : x[2] = last.table[i][1] } }
            /\ \A j \in 1..(Len(last.table[i][2]) - 1) :
                 NameLess(last.table[i][2][j], last.table[i][2][j + 1])

\* C16: a snapshot cycle started as root with a configuration present runs
\* to its end and reports the counts.
C16_CycleRunsToEnd ==
    (last.op = "snapshot" /\ last.out \notin {"root_required", "no_config"})
    => last.out = "ok"

C17_SnapshotDirUntouched ==
    [][ last'.op \in {"rollback", "revert"}
        => snapDir' = snapDir /\ snaps' = snaps /\ markers' = markers ]_vars

\* a rollback ran to its end: live holds a copy of an entry that is still there
C17_Witness ==
    /\ last.op = "rollback" /\ last.out = "ok"
    /\ \A i \in 1..Len(last.plan) :
         /\ live[last.plan[i]] = Some(last.ts)
         /\ << last.plan[i], last.ts >> \in snaps
    /\ Len(last.plan) > 0

\* C18: a revert, however it ends, leaves /boot, the default boot entry, the
\* Restored-Kernel Marker, the kernel markers and the kernel backup records
\* as they were; after a rollback to a session with a kernel marker and a
\* revert, the default kernel is still the one of that session.
C18_RevertKeepsKernel ==
    [][ last'.op = "revert"
        => /\ boot' = boot /\ grub' = grub /\ restored' = restored
           /\ markers' = markers /\ backups' = backups
           /\ (last.op = "rollback" /\ last.out = "ok"
                 /\ Has(snapshot_kernel_version(last.ts)))
              => grub' = snapshot_kernel_version(last.ts)[1] ]_vars

\* a revert ran to its end while a kernel restored by a rollback is the default
C18_Witness ==
    /\ last.op = "revert" /\ last.out = "ok"
    /\ restored # NoVer /\ grub = restored /\ grub # running
    /\ EnginePlaced(restored)

\* A rollback to a session without kernel marker in which the delete of an
\* item held in old/ failed: the item is still held and no live subvolume
\* was renamed.
DeleteFailed ==
    /\ last'.op = "rollback" /\ faults' < faults
    /\ ~Has(snapshot_kernel_version(last'.ts))
    /\ live' = live
    /\ \E x \in Subvols : Has(old[x]) /\ old'[x] = old[x]

\* C20: a rollback in which the delete of one held item failed still deletes
\* the other held items and runs to its end.
C20_DeletesIndependent ==
    [][ DeleteFailed
        => /\ last'.out = "ok"
           /\ Cardinality({ x \in Subvols : Has(old[x]) /\ old'[x] = old[x] })
                <= MaxFaults ]_vars

\* C21: a rollback in which a live subvolume was renamed or replaced had
\* passed the safety guard, read the snapshot directory without changing it,
\* restored the session's kernel (when the session has a marker) and emptied
\* the undo buffer before; the subvolumes of the plan are taken in order,
\* each renamed into the undo buffer before its new live instance is made.
C21_RollbackOrder ==
    [][ (last'.op = "rollback" /\ live' # live)
        => /\ ~last'.unsafeYes
           /\ snaps' = snaps
           /\ Has(snapshot_kernel_version(last'.ts))
                => grub' = snapshot_kernel_version(last'.ts)[1]
           /\ oldDir'
           /\ \A x \in Subvols :
                Has(old'[x]) => (x \in Range(last'.plan) /\ old'[x] = live[x])
           /\ \A i \in 1..Len(last'.plan) :
                live'[last'.plan[i]] # live[last'.plan[i]]
                => /\ old'[last'.plan[i]] = live[last'.plan[i]]
                   /\ \A j \in 1..(i - 1) : live'[last'.plan[j]] = Some(last'.ts) ]_vars

\* a rollback died between the rename of a live subvolume and the making
\* of its new instance, after it had restored the session's kernel
C21_Witness ==
    /\ last.op = "rollback" /\ last.out = "crash"
    /\ \E x \in Subvols : live[x] = None /\ Has(old[x])
    /\ Has(snapshot_kernel_version(last.ts))
    /\ grub = snapshot_kernel_version(last.ts)[1]
    /\ restored = grub

\* C22: after a rollback to session S that ran to its end, every subvolume
\* of the plan is live as a copy of its entry of S, which is still in the
\* snapshot directory; every other subvolume is live as before and has no
\* instance in the undo buffer.
C22_RollbackResult ==
    [][ Ran("rollback", "ok")
        => \A x \in Subvols :
             IF x \in Range(last'.plan)
             THEN live'[x] = Some(last'.ts) /\ << x, last'.ts >> \in snaps'
             ELSE live'[x] = live[x] /\ old'[x] = None ]_vars

\* a rollback of one subvolume ran to its end while the undo buffer held
\* the other one
C22_Witness ==
    /\ last.op = "rollback" /\ last.out = "ok" /\ Len(last.plan) = 1
    /\ \E x \in Subvols \ Range(last.plan) :
         /\ Has(last.preOld[x]) /\ old[x] = None
         /\ Has(live[x]) /\ live[x] = last.preLive[x]
    /\ live[last.plan[1]] = Some(last.ts)
    /\ live[last.plan[1]] # last.preLive[last.plan[1]]

C24_EncodeDecode ==
    last.op = "list"
    => \A e \in snaps :
         (e[1] # ".kernel" /\ ValidStamp(e[2]))
         => \E i \in 1..Len(last.table) :
              last.table[i][1] = e[2] /\ e[1] \in Range(last.table[i][2])

\* C25: a rollback to a session without kernel marker is not refused for
\* that; it leaves /boot, the default boot entry and the Restored-Kernel
\* Marker as they were, and when it ran to its end the subvolumes of the
\* plan are live as copies of the session's entries.
C25_NoMarkerRollback ==
    [][ (last'.op = "rollback"
           /\ last'.out \in {"ok", "crash", "kernel_backup_missing"}
           /\ ~Has(snapshot_kernel_version(last'.ts)))
        => /\ BootUnchanged
           /\ last'.out # "kernel_backup_missing"
           /\ last'.out = "ok"
                => \A i \in 1..Len(last'.plan) :
                     live'[last'.plan[i]] = Some(last'.ts) ]_vars

\* a rollback to a session without marker ran to its end while a kernel
\* restored by an earlier rollback is the default
C25_Witness ==
    /\ last.op = "rollback" /\ last.out = "ok"
    /\ ~Has(snapshot_kernel_version(last.ts))
    /\ Len(last.plan) > 0
    /\ \A i \in 1..Len(last.plan) : live[last.plan[i]] = Some(last.ts)
    /\ restored # NoVer /\ grub = restored /\ EnginePlaced(restored)

\* C26: a snapshot cycle (run as root, with a configuration) leaves nothing
\* in the undo buffer, and a revert that comes right after it and gets to
\* look at the undo buffer finds nothing to revert.
C26_CycleClearsUndo ==
    [][ /\ (last'.op = "snapshot" /\ last'.out \notin {"root_required", "no_config"})
           => \A x \in Subvols : ~Has(old'[x])
        /\ (last.op = "snapshot" /\ last.out \notin {"root_required", "no_config"}
             /\ last'.op = "revert"
             /\ last'.out \in {"ok", "crash", "cancelled", "no_undo_buffer", "old_empty"})
           => last'.out \in {"no_undo_buffer", "old_empty"} ]_vars

\* C27: whatever rollbacks and reverts ran, to their end or not, every
\* subvolume (each was live at the start) has an instance at its live path
\* or in the undo buffer.
C27_NoLiveStateLost ==
    \A x \in Subvols : Has(live[x]) \/ Has(old[x])

\* C28: a rollback that ended in failure and replaced no live subvolume
\* left /boot, the default boot entry and the Restored-Kernel Marker as
\* they were.
C28_FailedRollbackKeepsKernel ==
    [][ (last'.op = "rollback" /\ last'.out \in {"crash", "kernel_backup_missing"}
           /\ live' = live)
        => BootUnchanged ]_vars

(***************************************************************************)
(* gui/window.py: the window, its rollback dialog and the command the      *)
(* dialog launches.                                                        *)
(***************************************************************************)
\* BreadWindow._refresh()
Refresh ==
    /\ gui' = [table |-> build_snapshot_table, sel |-> NoNumber]
    /\ last' = Exit("gui", "refresh")
    /\ UNCHANGED diskVars

\* BreadWindow._on_row_selected(row) for a row below the header
RowSelected ==
    /\ \E i \in 0..(Len(gui.table) - 1) :
         /\ i # gui.sel
         /\ gui' = [gui EXCEPT !.sel = i]
    /\ last' = Exit("gui", "select")
    /\ UNCHANGED diskVars

\* BreadWindow._on_rollback and RollbackDialog._on_response("rollback"):
\* pkexec bread rollback --snapshot <selected_idx + 1> --subvols <checked>
\* --yes, and what rollback.main does with it (as root; the table is built
\* again from the snapshot directory).  last.n: the number passed.
OnRollback ==
    /\ gui.sel # NoNumber /\ gui.sel >= 0 /\ gui.sel < Len(gui.table)
    /\ UNCHANGED << snapDir, markers, backups, running, conf, made, gui >>
    /\ \E selected \in Selections, g \in { x \in FstabOutcomes : x.yes } :
         /\ selected # << >>
         /\ Range(selected) \subseteq Range(gui.table[gui.sel + 1][2])
         /\ IF ~Has(conf) THEN Abort("gui_rollback", "no_config", g.unsafeYes)
            ELSE IF g.out # "pass" THEN Abort("gui_rollback", g.out, g.unsafeYes)
            ELSE IF ~valid_number(gui.sel + 1, build_snapshot_table)
            THEN /\ Commit(Cmd(0))
                 /\ faults' = faults
                 /\ last' = [Exit("gui_rollback", "invalid_number") EXCEPT
                               !.n = gui.sel + 1,
                               !.range = Len(build_snapshot_table),
                               !.unsafeYes = g.unsafeYes]
            ELSE IF ~(Range(selected)
                        \subseteq Range(entry(build_snapshot_table, gui.sel + 1)[2]))
            THEN Abort("gui_rollback", "not_in_snapshot", g.unsafeYes)
            ELSE \E ord \in ListOrders :
                   \E f \in FailPoints(
                            execute_rollback(Cmd(0), selected,
                               entry(build_snapshot_table, gui.sel + 1)[1], ord).k) :
                     /\ Commit(execute_rollback(Cmd(f), selected,
                                  entry(build_snapshot_table, gui.sel + 1)[1], ord))
                     /\ faults' = IF f > 0 THEN faults - 1 ELSE faults
                     /\ last' = [Done("gui_rollback",
                                      Outcome(execute_rollback(Cmd(f), selected,
                                         entry(build_snapshot_table, gui.sel + 1)[1], ord)),
                                      entry(build_snapshot_table, gui.sel + 1)[1],
                                      selected, g.unsafeYes)
                                 EXCEPT !.n = gui.sel + 1]

\* The window over a configured machine whose snapshot directory holds
\* MaxSessions sessions (the newest one possibly of "root" alone), while
\* prune_snapshots runs on the subvolumes (retention: keep the newest).
InitGui ==
    /\ InitTree
    /\ snapDir = TRUE
    /\ \E rootOnly \in BOOLEAN :
         snaps = (Subvols \X Newest(MaxSessions))
                   \ (IF rootOnly THEN { << "home", NewestStamp >> } ELSE {})
    /\ markers = [t \in Stamps |-> None]
    /\ backups = [v \in Versions |-> None]
    /\ boot = [v \in Versions |-> IF v = "k2" THEN FullBoot(v) ELSE NoFiles]
    /\ running = "k2"
    /\ grub = "k2"
    /\ conf = Some(ZeroRetention)
    /\ faults = 0
    /\ made = [v \in Versions |-> None]

NextGui ==
    \/ Refresh
    \/ RowSelected
    \/ OnRollback
    \/ \E sub \in Subvols : PruneSnapshots(sub)

SpecGui == InitGui /\ [][NextGui]_vars

\* C29: the session a rollback launched from the window rolled back to is
\* the session of the row that was selected in the window.
C29_GuiRollsBackShownSession ==
    [][ (last'.op = "gui_rollback" /\ last'.out = "ok")
        => last'.ts = gui.table[gui.sel + 1][1] ]_vars

(***************************************************************************)
(* cli/purge.py                                                            *)
(***************************************************************************)
\* purge.main when none of its deletes fails: every entry and marker and
\* the snapshot directory are removed, the kernel bread restored is taken
\* out of /boot (_clean_previous_restore), the backup records and the
\* Restored-Kernel Marker are removed, then the undo buffer and the
\* configuration.  The default boot entry is not touched.
PurgeMain ==
    /\ UNCHANGED << live, tmp, grub, running, faults, gui >>
    /\ \E root \in BOOLEAN, answer \in BOOLEAN :
         IF ~root \/ ~answer
         THEN /\ last' = Exit("purge", IF ~root THEN "root_required" ELSE "cancelled")
              /\ UNCHANGED << oldDir, old, snapDir, snaps, markers, backups, boot,
                              restored, conf, made >>
         ELSE /\ snaps' = {}
              /\ markers' = [t \in Stamps |-> None]
              /\ snapDir' = FALSE
              /\ boot' = clean_previous_restore(Cmd(0)).boot
              /\ backups' = [v \in Versions |-> None]
              /\ made' = [v \in Versions |-> None]
              /\ restored' = NoVer
              /\ old' = NoSubvols
              /\ oldDir' = FALSE
              /\ conf' = None
              /\ last' = Exit("purge", "ok")

\* Rollback, revert, snapshot cycle and purge, when up to MaxFaults
\* commands die at an external call that raises.
NextPurge ==
    \/ RollbackMain
    \/ RevertMain
    \/ SnapshotMain
    \/ PurgeMain

SpecPurge == InitFaults /\ [][NextPurge]_vars

\* C30: the kernel that is the default boot entry has its image in /boot.
C30_DefaultKernelInBoot ==
    Has(boot[grub]["vmlinuz"])

\* every kernel marker of the snapshot directory names a version that has
\* a backup record
MarkersBacked ==
    \A t \in Stamps :
       (snapDir /\ Has(markers[t])) => Has(backups[markers[t][1]])

\* C31: no command (snapshot cycle, rollback, kernel backup, kernel prune,
\* prune of entries, kernel restore) leaves a kernel marker without the
\* backup record of its version when there was none before, and while
\* that holds no rollback ends for a missing kernel backup.
C31_MarkersStayBacked ==
    [][ MarkersBacked
        => /\ MarkersBacked'
           /\ last'.op = "rollback" => last'.out # "kernel_backup_missing" ]_vars

\* the kernel prune removed the record of a version no marker names (the
\* version was restored from that record before) and left the record of
\* the version a marker names
C31_Witness ==
    /\ last.op = "prune_kernel"
    /\ MarkersBacked
    /\ \E t \in Stamps : snapDir /\ Has(markers[t])
    /\ restored # NoVer /\ EnginePlaced(restored) /\ ~Has(backups[restored])

=============================================================================
